---- MODULE Spec2Model ----
(***************************************************************************)
(* A model of FMP.py: a client of the Financial Modeling Prep REST API.    *)
(* The FMP object, the caller's ticker list, the remote API and the call   *)
(* in progress are the state; every method of the class is an action (the  *)
(* loop of get_multiple_returns is one action per iteration, since each    *)
(* iteration issues one HTTP GET).                                         *)
(*                                                                         *)
(* pandas is modelled by what the calls used here do on the tables the     *)
(* code builds (pandas 1.x, the version the code was written for:          *)
(* astype('datetime64[M]') truncates to the month).  A table is a record  *)
(* [columns, index, rows]; a float is a fraction <<num, den>> and NaN is   *)
(* <<0, 0>>; a date string 'YYYY-MM-DD' is a record [y, m, d] ordered as   *)
(* the zero-padded string is, and a timestamp is a day number since        *)
(* 1970-01-01.                                                             *)
(***************************************************************************)
EXTENDS Integers, Sequences, FiniteSets, TLC

VARIABLES obj, remote, callerTickers, pc, call, i, dfs, requests, outcome

vars == <<obj, remote, callerTickers, pc, call, i, dfs, requests, outcome>>

-----------------------------------------------------------------------------
(* Bounds and input domains *)

\* rows in one historical response
MaxHist == 2
\* symbols fetched by one call of get_multiple_returns
MaxList == 2

\* Python's None
PyNone == "<None>"
\* the default of __init__'s ticker parameter: the string 'None'
DefaultTicker == "None"

Keys == {"k"}
\* symbols the remote API knows
Symbols == {"AAPL", "SPY"}
\* ticker arguments of historical_price_by_interval
TickerArgs == {PyNone, "aapl"}
\* ticker arguments of the constructor
InitTickerArgs == {PyNone, DefaultTicker, "AAPL"}
IndexArgs == {PyNone, "SPY"}
Periods == {"D", "W", "M", "Q", "Y"}
IntradayIntervals == {"4hour", "1hour", "30min", "15min", "5min", "1min"}
SupportedIntervals == IntradayIntervals \cup {"1d", "1w", "1m", "1q", "1y"}
\* what a caller may pass: the supported intervals and a misspelt one
IntervalArgs == SupportedIntervals \cup {"2d"}
OkStatus == 200
StatusCodes == {OkStatus, 401, 404}

DateStr(y, m, d) == [y |-> y, m |-> m, d |-> d]
\* Mon 2020-12-28 and Fri 2021-01-01 share a week but no month, quarter or
\* year; 2021-01-04 opens the next week; 2021-04-01 the next quarter.
Dates == {DateStr(2020, 12, 28), DateStr(2021, 1, 1), DateStr(2021, 1, 4), DateStr(2021, 4, 1)}
Prices == {1, 2}
Records == [date : Dates, adjClose : Prices]

SeqsUpTo(S, n) == UNION {[1..k -> S] : k \in 0..n}
\* the histories the remote API may hold for a symbol: any order, repeated
\* dates allowed, at least one row
Histories == SeqsUpTo(Records, MaxHist) \ {<<>>}

\* fixed histories for the sessions that fetch several symbols
Fixtures == {
    << [date |-> DateStr(2021, 1, 4), adjClose |-> 2] >>,
    << [date |-> DateStr(2021, 4, 1), adjClose |-> 1],
       [date |-> DateStr(2021, 1, 4), adjClose |-> 2],
       [date |-> DateStr(2021, 1, 1), adjClose |-> 1] >>,
    << [date |-> DateStr(2021, 4, 1), adjClose |-> 2],
       [date |-> DateStr(2021, 1, 1), adjClose |-> 2],
       [date |-> DateStr(2020, 12, 28), adjClose |-> 1] >> }

-----------------------------------------------------------------------------
(* Dates: the string order, parsing and the calendar buckets *)

\* 'YYYY-MM-DD' strings compare as their fields do, most significant first
StrLeq(a, b) ==
    \/ a.y < b.y
    \/ a.y = b.y /\ a.m < b.m
    \/ a.y = b.y /\ a.m = b.m /\ a.d <= b.d

\* pd.to_datetime: the day number of a civil date
ToDatetime(s) ==
    LET y   == IF s.m <= 2 THEN s.y - 1 ELSE s.y
        era == y \div 400
        yoe == y - era * 400
        mp  == IF s.m > 2 THEN s.m - 3 ELSE s.m + 9
        doy == (153 * mp + 2) \div 5 + s.d - 1
        doe == yoe * 365 + yoe \div 4 - yoe \div 100 + doy
    IN  era * 146097 + doe - 719468

\* the civil date of a day number: what .dt.year, to_period and the cast to
\* datetime64[M] read from a timestamp
Civil(days) ==
    LET z   == days + 719468
        era == z \div 146097
        doe == z - era * 146097
        yoe == (doe - doe \div 1460 + doe \div 36524 - doe \div 146096) \div 365
        doy == doe - (365 * yoe + yoe \div 4 - yoe \div 100)
        mp  == (5 * doy + 2) \div 153
        d   == doy - (153 * mp + 2) \div 5 + 1
        m   == IF mp < 10 THEN mp + 3 ELSE mp - 9
        y   == yoe + era * 400 + (IF m <= 2 THEN 1 ELSE 0)
    IN  DateStr(y, m, d)

\* Monday is 0; 1970-01-01 was a Thursday
Weekday(days) == (days + 3) % 7

\* .dt.to_period('w').apply(lambda r: r.start_time): the week's Monday
WeekStart(days) == days - Weekday(days)
\* .astype('datetime64[M]'): the first day of the month
MonthStart(days) == ToDatetime(DateStr(Civil(days).y, Civil(days).m, 1))
\* .dt.to_period('q')
Quarter(days) == [freq |-> "Q", ordinal |-> Civil(days).y * 4 + (Civil(days).m - 1) \div 3]
\* .dt.year
Year(days) == Civil(days).y

\* .dt.to_period(period) for the documented periods D, W, M, Q, Y
ToPeriod(days, period) ==
    [freq |-> period,
     ordinal |-> CASE period = "D" -> days
                   [] period = "W" -> WeekStart(days)
                   [] period = "M" -> Civil(days).y * 12 + Civil(days).m - 1
                   [] period = "Q" -> Civil(days).y * 4 + (Civil(days).m - 1) \div 3
                   [] period = "Y" -> Civil(days).y]

-----------------------------------------------------------------------------
(* Tables *)

NaN == <<0, 0>>
IsNaN(f) == f[2] = 0 /\ f[1] = 0

Table(columns, index, rows) == [columns |-> columns, index |-> index, rows |-> rows]
NoTable == Table(<<>>, "", <<>>)

RECURSIVE Pick(_, _, _)
Pick(rows, keep, k) ==
    IF k > Len(rows) THEN <<>>
    ELSE (IF k \in keep THEN <<rows[k]>> ELSE <<>>) \o Pick(rows, keep, k + 1)

\* keep='last' in place of keep='first'
DropDuplicatesKeepLast(rows, col) ==
    Pick(rows, {k \in 1..Len(rows) :
                   \A j \in (k + 1)..Len(rows) : rows[j][col] # rows[k][col]}, 1)

\* df.drop_duplicates(subset=[col], keep='first')
DropDuplicates(rows, col) ==
    Pick(rows, {k \in 1..Len(rows) : \A j \in 1..(k - 1) : rows[j][col] # rows[k][col]}, 1)

\* Series.pct_change() of column adjClose: x[k] / x[k-1] - 1, NaN in row 1
PctChange(rows) ==
    [k \in 1..Len(rows) |->
        IF k = 1 THEN NaN
        ELSE <<rows[k].adjClose - rows[k - 1].adjClose, rows[k - 1].adjClose>>]

\* ascending=False in place of ascending=True
SortValuesDescending(rows) ==
    {[k \in 1..Len(rows) |-> rows[p[k]]] : p \in
        {q \in Permutations(1..Len(rows)) :
            \A k \in 1..(Len(rows) - 1) : StrLeq(rows[q[k + 1]].date, rows[q[k]].date)}}

\* df.sort_values(by='date', ascending=True): the sort is not stable, so rows
\* of one date may come out in any order
SortValues(rows) ==
    {[k \in 1..Len(rows) |-> rows[p[k]]] : p \in
        {q \in Permutations(1..Len(rows)) :
            \A k \in 1..(Len(rows) - 1) : StrLeq(rows[q[k]].date, rows[q[k + 1]].date)}}

-----------------------------------------------------------------------------
(* The remote API *)

UrlOf(endpoint, interval, ticker, key) ==
    [endpoint |-> endpoint, interval |-> interval, ticker |-> ticker, apikey |-> key]

\* the symbol the API serves for a ticker in a URL: it ignores case
Canon(ticker) == IF ticker = "aapl" THEN "AAPL" ELSE ticker

Body(kind, symbol, historical) == [kind |-> kind, symbol |-> symbol, historical |-> historical]
ErrorBody == Body("error", "", <<>>)
EmptyJson == Body("empty", "", <<>>)
NoResponse == [status |-> 0, body |-> Body("", "", <<>>)]

\* requests.get(url): any status; a 200 carries {} or the data of the symbol.
\* The API answers in JSON, so response.json() never raises; a history it
\* serves has at least one row.
Get(url) ==
    {[status |-> s, body |-> ErrorBody] : s \in StatusCodes \ {OkStatus}}
    \cup {[status |-> OkStatus, body |-> EmptyJson]}
    \cup (IF Canon(url.ticker) \in Symbols
          THEN {[status |-> OkStatus,
                 body |-> Body(IF url.endpoint = "historical-chart" THEN "bars" ELSE "daily",
                               Canon(url.ticker), remote[Canon(url.ticker)])]}
          ELSE {})

-----------------------------------------------------------------------------
(* The methods of FMP as functions of the response they receive *)

Result(kind, table) == [kind |-> kind, table |-> table]
Raise(kind) == Result(kind, NoTable)

\* str(x) in an f-string
Str(x) == IF x = PyNone THEN "None" ELSE x

\* _get_df
GetDf(resp) ==
    IF resp.status = OkStatus
    THEN IF resp.body.kind = "empty"
         THEN Result("table", NoTable)
         ELSE Result("table", Table(<<"date", "adjClose">>, "", resp.body.historical))
    ELSE Raise("ConnectionError")

\* a non-200 response handled like the empty one: None, no exception
GetHistoricalFmpNoRaise(resp) ==
    IF resp.status = OkStatus /\ resp.body.kind # "empty"
    THEN {Result("table", Table(<<"symbol", "adjClose">>, "date", sorted)) :
            sorted \in SortValues([k \in 1..Len(resp.body.historical) |->
                            [symbol |-> resp.body.symbol,
                             date |-> resp.body.historical[k].date,
                             adjClose |-> resp.body.historical[k].adjClose]])}
    ELSE {Result("None", NoTable)}

\* _get_historical_fmp: the possible results (one per order of equal dates)
GetHistoricalFmp(resp) ==
    IF resp.status = OkStatus
    THEN IF resp.body.kind = "empty"
         THEN {Result("None", NoTable)}
         ELSE LET symbol == resp.body.symbol
                  df == [k \in 1..Len(resp.body.historical) |->
                            [symbol |-> symbol,
                             date |-> resp.body.historical[k].date,
                             adjClose |-> resp.body.historical[k].adjClose]]
              IN  {Result("table", Table(<<"symbol", "adjClose">>, "date", sorted)) :
                      sorted \in SortValues(df)}
    ELSE {Raise("ConnectionError")}

\* historical_df['pct change'] = historical_df['adjClose'].pct_change()
WithPctChange(r) ==
    IF r.kind = "None"
    THEN Raise("TypeError")
    ELSE IF r.kind # "table" THEN r
    ELSE Result("table",
            Table(r.table.columns \o <<"pct change">>, r.table.index,
                  [k \in 1..Len(r.table.rows) |->
                      [symbol |-> r.table.rows[k].symbol,
                       date |-> r.table.rows[k].date,
                       adjClose |-> r.table.rows[k].adjClose,
                       pct |-> PctChange(r.table.rows)[k]]]))

\* the branches for 1w, 1m, 1q, 1y and the final else
Resample(r, interval) ==
    IF r.kind # "table" THEN r
    ELSE LET t == r.table
             Base(k) == t.rows[k]
             Daily(k) == ToDatetime(Base(k).date)
             Bucket(k) == CASE interval = "1w" -> WeekStart(Daily(k))
                            [] interval = "1m" -> MonthStart(Daily(k))
                            [] interval = "1q" -> Quarter(Daily(k))
                            [] interval = "1y" -> Year(Daily(k))
             col == CASE interval = "1w" -> "week"
                      [] interval = "1m" -> "monthly"
                      [] interval = "1q" -> "quarter"
                      [] interval = "1y" -> "year"
             rows == [k \in 1..Len(t.rows) |->
                         [symbol |-> Base(k).symbol, date |-> Base(k).date,
                          adjClose |-> Base(k).adjClose, pct |-> Base(k).pct,
                          daily |-> Daily(k), bucket |-> Bucket(k)]]
         IN  IF interval \in {"1w", "1m", "1q", "1y"}
             THEN Result("table", Table(t.columns \o <<"daily", col>>, t.index,
                                        DropDuplicates(rows, "bucket")))
             ELSE Raise("ValueError")

\* the ticker historical_price_by_interval fetches
TickerOf(self, ticker) == IF ticker # PyNone THEN ticker ELSE self._ticker

\* the URL historical_price_by_interval requests
UrlFor(self, ticker, interval) ==
    IF interval \in IntradayIntervals
    THEN UrlOf("historical-chart", interval, Str(TickerOf(self, ticker)), self._key)
    ELSE UrlOf("historical-price-full", "", Str(TickerOf(self, ticker)), self._key)

\* historical_price_by_interval, given the response to its request
HistoricalPriceByInterval(interval, resp) ==
    IF interval \in IntradayIntervals
    THEN {GetDf(resp)}
    ELSE IF interval = "1d"
    THEN {WithPctChange(r) : r \in GetHistoricalFmp(resp)}
    ELSE {Resample(WithPctChange(r), interval) : r \in GetHistoricalFmp(resp)}

-----------------------------------------------------------------------------
(* get_multiple_returns: the loop body and the merge *)

\* lines 140-148: the returns of one symbol, one row per period after the first
ReturnsColumn(t, ticker, period) ==
    LET reset == [k \in 1..Len(t.rows) |->
                     [date |-> ToPeriod(ToDatetime(t.rows[k].date), period),
                      adjClose |-> t.rows[k].adjClose,
                      pctChange |-> t.rows[k].pct]]
        dedup == DropDuplicates(reset, "date")
        pct == PctChange(dedup)
        keep == {k \in 1..Len(dedup) : ~IsNaN(dedup[k].pctChange) /\ ~IsNaN(pct[k])}
        full == [k \in 1..Len(dedup) |-> [date |-> dedup[k].date, vals |-> <<pct[k]>>]]
    IN  Table(<<ticker>>, "date", Pick(full, keep, 1))

\* a failed symbol skipped (an empty column) in place of ending the call
LoopBodySkipFailed(r, ticker, period) ==
    IF r.kind = "table"
    THEN Result("table", ReturnsColumn(r.table, ticker, period))
    ELSE Result("table", Table(<<ticker>>, "date", <<>>))

\* one iteration of the loop, given what historical_price_by_interval gave:
\* the column to append, or the exception that ends the call
LoopBody(r, ticker, period) ==
    IF r.kind = "table"
    THEN Result("table", ReturnsColumn(r.table, ticker, period))
    ELSE r

RECURSIVE SortedPeriods(_)
SortedPeriods(S) ==
    IF S = {} THEN <<>>
    ELSE LET lo == CHOOSE p \in S : \A q \in S : p.ordinal <= q.ordinal
         IN  <<lo>> \o SortedPeriods(S \ {lo})

ColumnSet(t) == {t.columns[k] : k \in 1..Len(t.columns)}
Nans(n) == [k \in 1..n |-> NaN]
ValsAt(t, date) ==
    IF \E k \in 1..Len(t.rows) : t.rows[k].date = date
    THEN t.rows[CHOOSE k \in 1..Len(t.rows) : t.rows[k].date = date].vals
    ELSE Nans(Len(t.columns))

\* how='inner' in place of how='outer': the keys both sides carry
MergeInner(left, right) ==
    LET overlap == ColumnSet(left) \cap ColumnSet(right)
        lcols == [k \in 1..Len(left.columns) |->
                     IF left.columns[k] \in overlap
                     THEN left.columns[k] \o "_x" ELSE left.columns[k]]
        rcols == [k \in 1..Len(right.columns) |->
                     IF right.columns[k] \in overlap
                     THEN right.columns[k] \o "_y" ELSE right.columns[k]]
        keys == SortedPeriods({left.rows[k].date : k \in 1..Len(left.rows)}
                              \cap {right.rows[k].date : k \in 1..Len(right.rows)})
    IN  Table(lcols \o rcols, "date",
              [k \in 1..Len(keys) |->
                  [date |-> keys[k],
                   vals |-> ValsAt(left, keys[k]) \o ValsAt(right, keys[k])]])

\* pd.merge(left, right, on=['date'], how='outer'): the sorted union of the
\* keys; a column name both sides carry gets the suffixes _x and _y
Merge(left, right) ==
    LET overlap == ColumnSet(left) \cap ColumnSet(right)
        lcols == [k \in 1..Len(left.columns) |->
                     IF left.columns[k] \in overlap
                     THEN left.columns[k] \o "_x" ELSE left.columns[k]]
        rcols == [k \in 1..Len(right.columns) |->
                     IF right.columns[k] \in overlap
                     THEN right.columns[k] \o "_y" ELSE right.columns[k]]
        keys == SortedPeriods({left.rows[k].date : k \in 1..Len(left.rows)}
                              \cup {right.rows[k].date : k \in 1..Len(right.rows)})
    IN  Table(lcols \o rcols, "date",
              [k \in 1..Len(keys) |->
                  [date |-> keys[k],
                   vals |-> ValsAt(left, keys[k]) \o ValsAt(right, keys[k])]])

RECURSIVE Fold(_)
Fold(frames) ==
    IF Len(frames) = 1 THEN frames[1]
    ELSE Merge(Fold(SubSeq(frames, 1, Len(frames) - 1)), frames[Len(frames)])

\* reduce(lambda left, right: pd.merge(...), dfs): no initial value, so an
\* empty list raises TypeError
Reduce(frames) ==
    IF frames = <<>> THEN Raise("TypeError") ELSE Result("table", Fold(frames))

-----------------------------------------------------------------------------
(* State *)

NoObject == [alive |-> FALSE, _key |-> "", _ticker |-> ""]
NoCall == [op |-> "", key |-> "", ticker |-> "", interval |-> "", period |-> "",
           index |-> "", entry |-> <<>>]

\* symbols = tickers binds a second name to the caller's list
symbols == callerTickers

\* the response to the latest request of the call
response == IF requests = <<>> THEN NoResponse ELSE requests[Len(requests)].response

Exchange(url, resp) == [url |-> url, response |-> resp]

InitCommon ==
    /\ obj = NoObject
    /\ pc = "idle"
    /\ call = NoCall
    /\ i = 0
    /\ dfs = <<>>
    /\ requests = <<>>
    /\ outcome = Raise("none")

\* a session against an API serving any one history
InitPrice ==
    /\ InitCommon
    /\ callerTickers = <<>>
    /\ \E h \in Histories : remote = [s \in Symbols |-> h]

\* a session against an API serving any history for AAPL and a fixed one
\* for SPY
InitReturns ==
    /\ InitCommon
    /\ callerTickers \in {<<>>, <<"AAPL">>}
    /\ \E h \in Histories, f \in Fixtures :
          remote = [s \in Symbols |-> IF s = "AAPL" THEN h ELSE f]

\* a session against an API serving the fixed histories
Init ==
    /\ InitCommon
    /\ callerTickers \in {<<>>, <<"AAPL">>}
    /\ remote \in [Symbols -> Fixtures]

-----------------------------------------------------------------------------
(* Actions *)

\* FMP(key, ticker): __init__ stores both and returns self._ticker; Python
\* raises TypeError when __init__ returns anything but None
Construct(key, ticker) ==
    /\ pc = "idle"
    /\ ~obj.alive
    /\ LET self == [alive |-> TRUE, _key |-> key, _ticker |-> ticker]
           returned == self._ticker
       IN  IF returned = PyNone
           THEN obj' = self /\ outcome' = Result("returned", NoTable)
           ELSE obj' = NoObject /\ outcome' = Raise("TypeError")
    /\ call' = [NoCall EXCEPT !.op = "__init__", !.key = key, !.ticker = ticker]
    /\ requests' = <<>>
    /\ UNCHANGED <<remote, callerTickers, pc, i, dfs>>

\* obj._get_historical_fmp(url), url being the daily URL of a ticker
CallGetHistoricalFmp(ticker) ==
    /\ pc = "idle"
    /\ obj.alive
    /\ \E resp \in Get(UrlFor(obj, ticker, "1d")) :
         /\ requests' = <<Exchange(UrlFor(obj, ticker, "1d"), resp)>>
         /\ outcome' \in GetHistoricalFmp(resp)
    /\ call' = [NoCall EXCEPT !.op = "_get_historical_fmp", !.ticker = ticker]
    /\ UNCHANGED <<obj, remote, callerTickers, pc, i, dfs>>

\* obj.historical_price_by_interval(ticker, interval)
CallHistoricalPriceByInterval(ticker, interval) ==
    /\ pc = "idle"
    /\ obj.alive
    /\ \E resp \in Get(UrlFor(obj, ticker, interval)) :
         /\ requests' = <<Exchange(UrlFor(obj, ticker, interval), resp)>>
         /\ outcome' \in HistoricalPriceByInterval(interval, resp)
    /\ call' = [NoCall EXCEPT !.op = "historical_price_by_interval",
                              !.ticker = ticker, !.interval = interval]
    /\ UNCHANGED <<obj, remote, callerTickers, pc, i, dfs>>

\* obj.get_multiple_returns(callerTickers, period, index), up to the loop
CallGetMultipleReturns(period, index) ==
    /\ pc = "idle"
    /\ obj.alive
    /\ Len(callerTickers) + (IF index # PyNone THEN 1 ELSE 0) <= MaxList
    /\ dfs' = <<>>
    /\ callerTickers' = IF index # PyNone THEN Append(symbols, index) ELSE symbols
    /\ i' = 1
    /\ pc' = "loop"
    /\ call' = [NoCall EXCEPT !.op = "get_multiple_returns", !.period = period,
                              !.index = index, !.entry = callerTickers]
    /\ requests' = <<>>
    /\ outcome' = Raise("none")
    /\ UNCHANGED <<obj, remote>>

\* one iteration of for ticker in symbols
LoopIteration ==
    /\ pc = "loop"
    /\ i <= Len(symbols)
    /\ \E resp \in Get(UrlFor(obj, symbols[i], "1d")) :
         /\ requests' = Append(requests, Exchange(UrlFor(obj, symbols[i], "1d"), resp))
         /\ \E r \in HistoricalPriceByInterval("1d", resp) :
              LET step == LoopBody(r, symbols[i], call.period)
              IN  IF step.kind = "table"
                  THEN /\ dfs' = Append(dfs, step.table)
                       /\ i' = i + 1
                       /\ UNCHANGED <<pc, outcome>>
                  ELSE /\ outcome' = step
                       /\ pc' = "idle"
                       /\ UNCHANGED <<dfs, i>>
    /\ UNCHANGED <<obj, remote, callerTickers, call>>

\* the loop is over: merge the columns and return
MergeAndReturn ==
    /\ pc = "loop"
    /\ i > Len(symbols)
    /\ outcome' = Reduce(dfs)
    /\ pc' = "idle"
    /\ UNCHANGED <<obj, remote, callerTickers, call, i, dfs, requests>>

NextPrice ==
    \/ \E key \in Keys, ticker \in InitTickerArgs : Construct(key, ticker)
    \/ \E ticker \in TickerArgs : CallGetHistoricalFmp(ticker)
    \/ \E ticker \in TickerArgs, interval \in IntervalArgs :
           CallHistoricalPriceByInterval(ticker, interval)

NextReturns ==
    \/ \E key \in Keys, ticker \in InitTickerArgs : Construct(key, ticker)
    \/ \E period \in Periods, index \in IndexArgs : CallGetMultipleReturns(period, index)
    \/ LoopIteration
    \/ MergeAndReturn

Next ==
    \/ NextPrice
    \/ NextReturns

SpecPrice == InitPrice /\ [][NextPrice]_vars

SpecReturns == InitReturns /\ [][NextReturns]_vars

Spec == Init /\ [][Next]_vars

-----------------------------------------------------------------------------
(* Properties *)

Public == {"historical_price_by_interval", "get_multiple_returns"}

\* a request answered 200 with the data of a symbol
Succeeded(ex) == ex.response.status = OkStatus /\ ex.response.body.kind = "daily"

\* the symbols a call of get_multiple_returns was asked for: the tickers as
\* passed, then the index
Expected == call.entry \o (IF call.index # PyNone THEN <<call.index>> ELSE <<>>)

\* C1: a request answered with a status other than 200 ends the public
\* operation that issued it in ConnectionError, with no table.
C1_Non200IsConnectionError ==
    (call.op \in Public /\ requests # <<>> /\ response.status # OkStatus)
        => pc = "idle" /\ outcome = Raise("ConnectionError")

\* get_multiple_returns fails on the non-200 answer to its second request
C1_Witness ==
    /\ call.op = "get_multiple_returns"
    /\ Len(requests) = 2
    /\ response.status = 404
    /\ outcome.kind = "ConnectionError"

\* C2: an interval outside the supported set ends historical_price_by_interval
\* in ValueError, whatever the remote API answers.
C2_UnsupportedIntervalIsValueError ==
    (call.op = "historical_price_by_interval" /\ call.interval \notin SupportedIntervals)
        => outcome.kind = "ValueError"

\* C3: a public operation ends with a table, a ConnectionError or a
\* ValueError, and in no other way.
C3_OnlyThreeOutcomes ==
    (call.op \in Public /\ pc = "idle")
        => outcome.kind \in {"table", "ConnectionError", "ValueError"}

\* C4: with compare_with_index the index's own column is 1 in every period
\* where it has a return.
C4_IndexColumnIsOne ==
    (call.op = "get_multiple_returns" /\ call.index # PyNone /\ outcome.kind = "table")
        => \A c \in 1..Len(outcome.table.columns), k \in 1..Len(outcome.table.rows) :
              outcome.table.columns[c] = call.index
                  => \/ IsNaN(outcome.table.rows[k].vals[c])
                     \/ outcome.table.rows[k].vals[c][1] = outcome.table.rows[k].vals[c][2]

\* C5: FMP(key, ticker) returns None from __init__ and leaves an object
\* holding the key and the ticker it was given.
C5_InitSucceeds ==
    call.op = "__init__"
        => /\ outcome.kind = "returned"
           /\ obj = [alive |-> TRUE, _key |-> call.key, _ticker |-> call.ticker]

\* the calendar bucket of a date string, read off its fields
CalendarBucket(date, interval) ==
    CASE interval = "1w" -> <<(ToDatetime(date) + 3) \div 7>>
      [] interval = "1m" -> <<date.y, date.m>>
      [] interval = "1q" -> <<date.y, (date.m + 2) \div 3>>
      [] interval = "1y" -> <<date.y>>

\* C6: for 1w, 1m, 1q, 1y and a 200 response with a history, the result has
\* one row per calendar bucket holding a daily row, that row is the oldest
\* daily row of the bucket, and the rows ascend by date.
C6_OldestRowPerBucket ==
    (/\ call.op = "historical_price_by_interval"
     /\ call.interval \in {"1w", "1m", "1q", "1y"}
     /\ Succeeded(requests[1]))
        => LET hist == response.body.historical
               rows == outcome.table.rows
               B(d) == CalendarBucket(d, call.interval)
           IN  /\ outcome.kind = "table"
               /\ \A a, b \in 1..Len(rows) :
                     a < b => /\ B(rows[a].date) # B(rows[b].date)
                              /\ StrLeq(rows[a].date, rows[b].date)
               /\ \A k \in 1..Len(hist) : \E a \in 1..Len(rows) :
                     /\ B(rows[a].date) = B(hist[k].date)
                     /\ StrLeq(rows[a].date, hist[k].date)
               /\ \A a \in 1..Len(rows) : \E k \in 1..Len(hist) :
                     /\ hist[k].date = rows[a].date
                     /\ hist[k].adjClose = rows[a].adjClose

\* a weekly call on two days of one week, served newest first, kept the older
C6_Witness ==
    /\ call.op = "historical_price_by_interval"
    /\ call.interval = "1w"
    /\ Succeeded(requests[1])
    /\ Len(response.body.historical) = 2
    /\ StrLeq(response.body.historical[2].date, response.body.historical[1].date)
    /\ response.body.historical[2].date # response.body.historical[1].date
    /\ Len(outcome.table.rows) = 1
    /\ outcome.table.rows[1].date = response.body.historical[2].date

\* the periods of a history, and per period its oldest rows
PeriodOf(row, period) == ToPeriod(ToDatetime(row.date), period)
PeriodsOf(hist, period) == {PeriodOf(hist[k], period) : k \in 1..Len(hist)}
FirstRows(hist, period, P) ==
    {k \in 1..Len(hist) :
        /\ PeriodOf(hist[k], period) = P
        /\ \A j \in 1..Len(hist) :
              PeriodOf(hist[j], period) = P => StrLeq(hist[k].date, hist[j].date)}
\* the periods of a history that have one before them
LaterPeriods(hist, period) ==
    {P \in PeriodsOf(hist, period) :
        \E Q \in PeriodsOf(hist, period) : Q.ordinal < P.ordinal}
PreviousPeriod(hist, period, P) ==
    CHOOSE Q \in PeriodsOf(hist, period) :
        /\ Q.ordinal < P.ordinal
        /\ \A R \in PeriodsOf(hist, period) : R.ordinal < P.ordinal => R.ordinal <= Q.ordinal

\* the table get_multiple_returns is to return for the histories it fetched
ReturnsTableIsRight ==
    LET t == outcome.table
        H(c) == requests[c].response.body.historical
        per == call.period
    IN  /\ outcome.kind = "table"
        /\ Len(t.columns) = Len(Expected)
        /\ \A c \in 1..Len(Expected) :
              (\A d \in 1..Len(Expected) : d # c => Expected[d] # Expected[c])
                  => t.columns[c] = Expected[c]
        /\ {t.rows[k].date : k \in 1..Len(t.rows)}
              = UNION {LaterPeriods(H(c), per) : c \in 1..Len(Expected)}
        /\ \A k \in 1..Len(t.rows), c \in 1..Len(Expected) :
              IF t.rows[k].date \in LaterPeriods(H(c), per)
              THEN \E a \in FirstRows(H(c), per, t.rows[k].date),
                      b \in FirstRows(H(c), per, PreviousPeriod(H(c), per, t.rows[k].date)) :
                      t.rows[k].vals[c] = <<H(c)[a].adjClose - H(c)[b].adjClose, H(c)[b].adjClose>>
              ELSE IsNaN(t.rows[k].vals[c])

AllFetched ==
    /\ call.op = "get_multiple_returns"
    /\ pc = "idle"
    /\ requests # <<>>
    /\ Len(requests) = Len(Expected)
    /\ \A k \in 1..Len(requests) : Succeeded(requests[k])

C8_SortedPermutation ==
    (call.op = "_get_historical_fmp" /\ Succeeded(requests[1]))
        => LET hist == response.body.historical
               rows == outcome.table.rows
           IN  /\ outcome.kind = "table"
               /\ outcome.table.index = "date"
               /\ outcome.table.columns[1] = "symbol"
               /\ Len(rows) = Len(hist)
               /\ \E p \in Permutations(1..Len(hist)) : \A k \in 1..Len(hist) :
                     rows[k] = [symbol |-> response.body.symbol,
                                date |-> hist[p[k]].date,
                                adjClose |-> hist[p[k]].adjClose]
               /\ \A k \in 1..(Len(rows) - 1) :
                     ToDatetime(rows[k].date) <= ToDatetime(rows[k + 1].date)

\* a history served newest first comes back reversed
C8_Witness ==
    /\ call.op = "_get_historical_fmp"
    /\ Succeeded(requests[1])
    /\ Len(response.body.historical) = 2
    /\ ToDatetime(response.body.historical[2].date) < ToDatetime(response.body.historical[1].date)
    /\ outcome.kind = "table"
    /\ outcome.table.rows[1].date = response.body.historical[2].date

\* C9: historical_price_by_interval issues at most one GET;
\* get_multiple_returns issues one GET per symbol in list order, the index
\* last, none after a request that failed, and then returns no table.
C9_NoRetryNoPartialResult ==
    /\ call.op = "historical_price_by_interval" => Len(requests) <= 1
    /\ call.op = "get_multiple_returns" =>
          /\ Len(requests) <= Len(Expected)
          /\ \A k \in 1..Len(requests) :
                requests[k].url = UrlOf("historical-price-full", "", Expected[k], obj._key)
          /\ \A k \in 1..(Len(requests) - 1) : Succeeded(requests[k])
          /\ (requests # <<>> /\ ~Succeeded(requests[Len(requests)]))
                => /\ pc = "idle"
                   /\ outcome.kind \notin {"table", "none"}
                   /\ outcome.table = NoTable
          /\ outcome.kind = "table" => Len(requests) = Len(Expected)

\* the first of two symbols failed: one request, no table
C9_Witness ==
    /\ call.op = "get_multiple_returns"
    /\ Len(Expected) = 2
    /\ Len(requests) = 1
    /\ ~Succeeded(requests[1])
    /\ pc = "idle"
    /\ outcome.kind = "ConnectionError"

\* C10: get_multiple_returns leaves the caller's tickers list as it was
\* passed.
C10_TickersUnchanged ==
    call.op = "get_multiple_returns" => callerTickers = call.entry

====
